---------------------------- MODULE Spec2Model ----------------------------
(***************************************************************************)
(* Model of exosyspop.populations.BinaryPopulation (and its blended        *)
(* subclass): the per-star table `stars`, the pending list                 *)
(* `_not_calculated`, the lazy attribute access, the physical and orbital  *)
(* generators, the surrogate training flags and the observation simulator. *)
(*                                                                         *)
(* Encoding.  Floating point columns are abstracted: NaN is -1, an absent  *)
(* argument (Python None) is -2, a finite positive value whose magnitude   *)
(* plays no role is SomeValue.  Masses are in tenths of a solar mass, mass *)
(* ratios and probabilities in tenths, secondary masses in hundredths      *)
(* (q * mass_A), orbital phases in quarters of a period, times in days.    *)
(* _not_calculated is a Python list that may hold a name several times;    *)
(* only membership and the number of occurrences are observable, so it is  *)
(* modelled as a bag: property name -> number of occurrences.              *)
(***************************************************************************)
EXTENDS Integers, Sequences, FiniteSets, TLC

\* ------------------------------------------------------------------ bounds

NStars == 2    \* rows of the star table
MaxDup == 2    \* occurrences of one name in _not_calculated the model follows
MaxTrainN == 1 \* N of _train_trap / get_N_observed: rows to accumulate
MaxRounds == 3 \* turns of the resampling loop of _sample_period followed

\* --------------------------------------------------------------- encodings

NaN == -1
None == -2
SomeValue == 1

Stars == 1..NStars

\* ------------------------------------------------------- class attributes

param_names == <<"fB", "gamma", "qRmin", "mu_logp", "sig_logp", "a", "b">>
default_params == <<4, 3, 1, 24, 23, 8, 20>>

physical_props == <<"mass_A", "radius_A", "mass_B", "radius_B", "flux_ratio">>
orbital_props == <<"period", "ecc", "w", "inc", "a", "aR",
                   "b_pri", "b_sec", "k", "tra", "occ",
                   "d_pri", "d_sec", "T14_pri", "T14_sec",
                   "T23_pri", "T23_sec">>
obs_props == <<"dataspan", "dutycycle">>

Range(s) == {s[i] : i \in DOMAIN s}
Physical == Range(physical_props)
Orbital == Range(orbital_props)
Obs == Range(obs_props)
Props == Physical \cup Orbital \cup Obs

\* orbital_props[:6] and orbital_props[6:]
GeomProps == Range(SubSeq(orbital_props, 1, 6))
NonGeomProps == Range(SubSeq(orbital_props, 7, Len(orbital_props)))

MinMass == 1            \* ic.minmass, tenths of a solar mass
min_period == 1         \* days
texp == 2               \* exposure time, hundredths of a day
DataspanPlaceholder == 1400
DutycyclePlaceholder == 10

ParamIndex(name) == CHOOSE i \in DOMAIN param_names : param_names[i] = name

Max(x, y) == IF x >= y THEN x ELSE y
Min(x, y) == IF x <= y THEN x ELSE y

AllRows(v) == [i \in Stars |-> v]


\* ------------------------------------------------------------------- state

VARIABLES
    blended,         \* the object is a BlendedBinaryPopulation
    stars,           \* self.stars: column name -> row -> value
    not_calculated,  \* self._not_calculated, as a bag
    attrs,           \* property names shadowed by an instance attribute
    params,          \* self._params
    params_type,     \* "list" or "tuple": the container self._params is
    binary_trained,  \* self._binary_trained
    trap_trained,    \* self._trap_trained
    pipelines,       \* the pipelines stored on the object
    implicit,        \* how often each trainer was invoked implicitly
    last,            \* the call that produced this state and its outcome
    calc,            \* the local arrays of the last sampling or assembly step
    catalog          \* the catalog returned by the last observe call

vars == <<blended, stars, not_calculated, attrs, params, params_type,
          binary_trained,
          trap_trained, pipelines, implicit, last, calc, catalog>>

\* The object the methods work on, with the outcome of the running call:
\* err is the exception propagating (or "none"), gens the generators and
\* trainers the call ran, b the membership mask of the latest
\* _generate_binaries, cat the catalog the call returns.
Self ==
    [blended |-> blended, st |-> stars, nc |-> not_calculated, attrs |-> attrs,
     params |-> params, bt |-> binary_trained, tt |-> trap_trained,
     pipes |-> pipelines, implicit |-> implicit,
     err |-> "none", gens |-> {}, b |-> <<>>, cat |-> <<>>]

\* No sampling or assembly step has run.
NoCalc == [op |-> "none", out |-> <<>>]

\* raise e
Raise(P, e) == [P EXCEPT !.err = e]

\* The running call went through generator or trainer g.
Ran(P, g) == [P EXCEPT !.gens = @ \cup {g}]

\* prop in self._not_calculated
Pending(P, prop) == P.nc[prop] > 0

\* self.stars.loc[:, c] = vals
SetColumn(P, c, vals) == [P EXCEPT !.st[c] = vals]

\* ------------------------------------------------------------ property cache

\* _mark_calculated: list.index + pop removes the first occurrence only;
\* a ValueError (name absent) is swallowed.
MarkCalculated(P, prop) ==
    IF P.nc[prop] > 0 THEN [P EXCEPT !.nc[prop] = @ - 1] ELSE P

\* _remove_prop: the column is set to NaN and the name appended, whether or
\* not it is in the list already.
RemoveProp(P, prop) ==
    [P EXCEPT !.st[prop] = AllRows(NaN), !.nc[prop] = @ + 1]

RECURSIVE MarkEach(_, _)
MarkEach(P, props) ==
    IF props = <<>> THEN P
    ELSE MarkEach(MarkCalculated(P, Head(props)), Tail(props))

RECURSIVE RemoveEach(_, _)
RemoveEach(P, props) ==
    IF props = <<>> THEN P
    ELSE RemoveEach(RemoveProp(P, Head(props)), Tail(props))

\* for c in props: self.stars.loc[:, c] = cols[c]; self._mark_calculated(c)
WriteAndMark(P, props, cols) ==
    MarkEach([P EXCEPT !.st = [c \in Props |->
                  IF c \in Range(props) THEN cols[c] ELSE @[c]]], props)

\* _ensure_radius: the primary radius is looked up on the isochrone when
\* radius_A is pending.
EnsureRadius(P) ==
    IF Pending(P, "radius_A")
    THEN MarkCalculated(SetColumn(P, "radius_A", AllRows(SomeValue)), "radius_A")
    ELSE P

\* np.clip(x, lo, hi)
Clip(x, lo, hi) == IF x < lo THEN lo ELSE IF x > hi THEN hi ELSE x

\* _ensure_age on the age column t.ageCol (log10 years, hundredths) of a
\* catalog that has one (t.hasAge) or not.  t.minAge and t.maxAge are what
\* ic.agerange(mass_A, feh) returns for the rows, t.icMaxAge is ic.maxage and
\* t.uDraw the np.random.random draws in tenths.  `if 'age' in self.stars:
\* return` comes first, so the np.clip of the supplied ages is never reached.
EnsureAge(t) ==
    IF t.hasAge THEN t
    ELSE [t EXCEPT !.hasAge = TRUE,
                   !.ageCol = [i \in Stars |->
                       (t.uDraw[i] * ((Clip(t.maxAge[i], 0, t.icMaxAge) - 10)
                                      - (t.minAge[i] + 30))) \div 10
                       + (t.minAge[i] + 30)]]

\* ------------------------------------------------------- physical generator

\* draw_powerlaw(gamma, (lo, hi)); d selects the draw.  The sampler lives in
\* exosyspop.utils; by its contract the value lies in [lo, hi].
DrawPowerlaw(lo, hi, d) == IF d = 0 THEN lo ELSE hi

\* b = np.random.random(N) < fB ; u are the uniform draws in tenths
BinaryMask(fB, u) == [i \in Stars |-> u[i] < fB]

\* qmin = np.maximum(qmin, minmass/self.mass_A), in tenths, rounded up
QMin(qRmin, mA) == Max(qRmin, (10 * MinMass + mA - 1) \div mA)

\* M2 = q * mass_A for every row (masked by b where it is stored)
SecondaryMass(P, D) ==
    LET qRmin == P.params[ParamIndex("qRmin")]
        mA == P.st["mass_A"]
    IN  [i \in Stars |-> DrawPowerlaw(QMin(qRmin, mA[i]), 10, D.qd[i]) * mA[i]]

\* A column assembly that leaves the rows outside the mask at zero.
MaskedNaNZero(b, vals) == [i \in Stars |-> IF b[i] THEN vals[i] ELSE 0]

\* x = np.zeros(N); x[b] = vals; x[~b] = np.nan   (mass_B, radius_B)
MaskedNaN(b, vals) == [i \in Stars |-> IF b[i] THEN vals[i] ELSE NaN]

\* fluxrat = np.zeros(N); fluxrat[b] = flux_ratio   (no NaN assignment)
MaskedZero(b, vals) == [i \in Stars |-> IF b[i] THEN vals[i] ELSE 0]

\* The three secondary columns written by _generate_binaries.
SecondaryColumns(b, M2) ==
    [c \in {"mass_B", "radius_B", "flux_ratio"} |->
        CASE c = "mass_B" -> MaskedNaN(b, M2)
          [] c = "radius_B" -> MaskedNaN(b, AllRows(SomeValue))
          [] c = "flux_ratio" -> MaskedZero(b, AllRows(SomeValue))]

\* A count of implicit trainer invocations, followed up to 2.
Bump(n) == IF n < 2 THEN n + 1 ELSE n

RECURSIVE GetAttr(_, _, _)
RECURSIVE GetAttrs(_, _, _)
RECURSIVE GenerateBinaries(_, _, _)
RECURSIVE GenerateOrbits(_, _, _)

\* __getattr__, up to the return: Python calls it only when the normal
\* lookup finds no instance attribute of that name.  A pending physical
\* property runs _generate_binaries, a pending orbital one _generate_orbits
\* (the method of the object's class); an observation property runs nothing.
\* mass_A is a column of every catalog and is never pending.
GetAttr(P, D, name) ==
    IF name \in P.attrs \/ ~Pending(P, name) THEN P
    ELSE IF name \in Physical THEN GenerateBinaries(P, D, FALSE)
    ELSE IF name \in Orbital THEN GenerateOrbits(P, D, FALSE)
    ELSE P

\* self.<n1>; self.<n2>; ... : attribute reads one after the other
GetAttrs(P, D, names) ==
    IF names = <<>> THEN P
    ELSE GetAttrs(GetAttr(P, D, Head(names)), D, Tail(names))

\* A generator that retrains the dmag/qR pipelines on every call.
NeedsBinaryTrainingAlways(P) == TRUE

\* if not self._binary_trained
NeedsBinaryTraining(P) == ~P.bt

\* A trainer that sets the flag without storing the pipelines.
TrainPipelinesNoStore(P, D, isImplicit) ==
    Ran([GetAttrs(EnsureRadius(P), D, <<"radius_A">>)
            EXCEPT !.bt = TRUE,
                   !.implicit.pipelines = IF isImplicit THEN Bump(@) ELSE @],
        "train_pipelines")

\* _get_binary_training_data + _train_pipelines: both pipelines are fitted
\* and stored, then the flag is set.
TrainPipelines(P, D, isImplicit) ==
    Ran([GetAttrs(EnsureRadius(P), D, <<"radius_A">>)
            EXCEPT !.pipes = @ \cup {"dmag", "qR"},
                   !.bt = TRUE,
                   !.implicit.pipelines = IF isImplicit THEN Bump(@) ELSE @],
        "train_pipelines")

\* _simulate_binary_features: _ensure_radius, then the catalog features
\* mass_A and radius_A are read through __getattr__.
SimulateBinaryFeatures(P, D) ==
    GetAttrs(EnsureRadius(P), D, <<"mass_A", "radius_A">>)

\* if not self._binary_trained: self._train_pipelines()
TrainIfNeeded(P, D) ==
    IF NeedsBinaryTraining(P) THEN TrainPipelines(P, D, TRUE) ELSE P

\* The regression path: features, training on first use, the two
\* predictions (R2 = qR * self.radius_A[b]).
Regression(P, D) ==
    GetAttrs(TrainIfNeeded(SimulateBinaryFeatures(P, D), D), D, <<"radius_A">>)

\* The tail of _generate_binaries: the three columns are assembled from the
\* mask b, written and marked calculated.
WriteBinaries(P, D, b) ==
    Ran([WriteAndMark(P, <<"mass_B", "radius_B", "flux_ratio">>,
                      SecondaryColumns(b, SecondaryMass(P, D)))
            EXCEPT !.b = b],
        "binaries")

\* _generate_binaries(use_ic): exact isochrone path or regression path
GenerateBinaries(P, D, use_ic) ==
    WriteBinaries(IF use_ic THEN EnsureRadius(P) ELSE Regression(P, D), D,
                  BinaryMask(P.params[ParamIndex("fB")], D.u))

\* -------------------------------------------------------- orbital generator

\* A boolean column entry (tra, occ) as the number it multiplies as.
Flag(x) == IF x THEN 1 ELSE 0

\* The 17 orbital columns computed by _generate_orbits from the secondary
\* masses mB and radii rB it read and from the draws.  period, ecc, w and inc
\* are drawn for every row; a = semimajor(period, mass_A + mass_B) and all
\* that derives from it is NaN on a row without secondary; a comparison with
\* NaN is False, so tra and occ are False there; depths are np.zeros filled
\* on flagged rows; NaN durations are coerced to 0.
OrbitColumns(mB, rB, D) ==
    LET bin(i) == mB[i] # NaN /\ rB[i] # NaN
        geo(i) == IF mB[i] = NaN THEN NaN ELSE SomeValue
        tra(i) == bin(i) /\ D.tra[i]
        occ(i) == bin(i) /\ D.occ[i]
    IN  [c \in Orbital |-> [i \in Stars |->
            CASE c = "period" -> D.per[i]
              [] c \in {"ecc", "w", "inc"} -> SomeValue
              [] c \in {"a", "aR"} -> geo(i)
              [] c \in {"b_pri", "b_sec"} -> geo(i)
              [] c = "k" -> IF rB[i] = NaN THEN NaN ELSE SomeValue
              [] c = "tra" -> Flag(tra(i))
              [] c = "occ" -> Flag(occ(i))
              [] c \in {"d_pri", "T14_pri", "T23_pri"} ->
                    IF tra(i) THEN SomeValue ELSE 0
              [] c \in {"d_sec", "T14_sec", "T23_sec"} ->
                    IF occ(i) THEN SomeValue ELSE 0]]

\* if geom_only: write and mark orbital_props[:6], _remove_prop the others
GeomOnly(P, cols) ==
    Ran(RemoveEach(WriteAndMark(P, SubSeq(orbital_props, 1, 6), cols),
                   SubSeq(orbital_props, 7, Len(orbital_props))),
        "orbits_geom")

\* The attribute reads of _generate_orbits, in program order: the four at
\* its head and, in a full generation, flux_ratio.
OrbitReads(geom_only) ==
    <<"mass_A", "mass_B", "radius_A", "radius_B">>
        \o (IF geom_only THEN <<>> ELSE <<"flux_ratio">>)

\* The writes of _generate_orbits once its inputs are read.
WriteOrbits(P, D, geom_only) ==
    IF geom_only
    THEN GeomOnly(P, OrbitColumns(P.st["mass_B"], P.st["radius_B"], D))
    ELSE Ran(WriteAndMark(P, orbital_props,
                 OrbitColumns(P.st["mass_B"], P.st["radius_B"], D)), "orbits")

\* BinaryPopulation._generate_orbits
GenerateOrbitsBase(P, D, geom_only) ==
    WriteOrbits(GetAttrs(P, D, OrbitReads(geom_only)), D, geom_only)

\* self.d_pri *= frac (and d_sec): the value is read with the normal lookup,
\* hence through __getattr__ while no instance attribute exists, multiplied
\* in place and then bound as an instance attribute of the object.
Dilute(P, D, c) == [GetAttr(P, D, c) EXCEPT !.attrs = @ \cup {c}]

\* BlendedBinaryPopulation._generate_orbits
BlendedGenerateOrbits(P, D, geom_only) ==
    Dilute(Dilute(GenerateOrbitsBase(P, D, geom_only), D, "d_pri"), D, "d_sec")

\* self._generate_orbits(...), dispatched on the class of the object
GenerateOrbits(P, D, geom_only) ==
    IF P.blended THEN BlendedGenerateOrbits(P, D, geom_only)
    ELSE GenerateOrbitsBase(P, D, geom_only)

\* The second statement of _prepare_geom
PrepareOrbits(P, D, new) ==
    IF Pending(P, "period") \/ new THEN GenerateOrbits(P, D, TRUE) ELSE P

\* _prepare_geom(new)
PrepareGeom(P, D, new) ==
    PrepareOrbits(IF Pending(P, "radius_B") \/ new
                  THEN GenerateBinaries(P, D, FALSE) ELSE P, D, new)

\* 10**(np.random.normal(np.log10(mu_logp), sig_logp)) * 365.25 in days, by
\* what the arithmetic yields: np.log10 of a negative number is NaN and the
\* sample is NaN; np.log10(0) is -inf and the sample is 0; otherwise the
\* sample is a positive number of days (0 stands for one below a day).
PeriodSamples(mu_logp) ==
    IF mu_logp < 0 THEN {NaN}
    ELSE IF mu_logp = 0 THEN {0}
    ELSE {0, 1, 30, 700, 2800}

\* bad = period < self.min_period; a comparison with NaN is False
Bad(period) ==
    [i \in Stars |-> period[i] # NaN /\ period[i] < min_period]

\* nbad = bad.sum()
NBad(period) == Cardinality({i \in Stars : Bad(period)[i]})

\* period[bad] = fresh: the entries of the mask take the new samples
Replace(period, fresh) ==
    [i \in Stars |-> IF Bad(period)[i] THEN fresh[i] ELSE period[i]]

\* The circularization of _generate_orbits.  Eccentricities are in
\* hundredths; lim[i] is (radius_A + radius_B)*RSUN / (3*rochelobe(1/q)*a) of
\* row i in hundredths, NaN for a single star, so that the test
\* (radius_A + radius_B)*RSUN > 3*rochelobe(1./q)*a*(1-ecc) reads
\* lim > 100 - ecc and is False on NaN.
TooClose(lim, ecc) ==
    [i \in Stars |-> lim[i] # NaN /\ lim[i] > 100 - ecc[i]]

\* ecc[tooclose] = v
Assign(ecc, tooclose, v) ==
    [i \in Stars |-> IF tooclose[i] THEN v ELSE ecc[i]]

\* The two passes in the other order: zero first, Rayleigh second.
CircularizeZeroFirst(t) ==
    [t EXCEPT
       !.redrawn = TooClose(t.limIn, Assign(t.eccIn, TooClose(t.limIn, t.eccIn), 0)),
       !.zeroed = TooClose(t.limIn, t.eccIn),
       !.eccOut = Assign(Assign(t.eccIn, TooClose(t.limIn, t.eccIn), 0),
                         TooClose(t.limIn,
                                  Assign(t.eccIn, TooClose(t.limIn, t.eccIn), 0)),
                         t.rayIn)]

\* tooclose = ...; ecc[tooclose] = np.random.rayleigh(0.03); peri and
\* tooclose recomputed; ecc[tooclose] = 0.  t.eccIn is the drawn ecc,
\* t.rayIn the one Rayleigh draw, redrawn and zeroed the masks of the two
\* passes, eccOut the ecc that goes on to the table.
Circularize(t) ==
    [t EXCEPT
       !.redrawn = TooClose(t.limIn, t.eccIn),
       !.zeroed = TooClose(t.limIn,
                           Assign(t.eccIn, TooClose(t.limIn, t.eccIn), t.rayIn)),
       !.eccOut = Assign(Assign(t.eccIn, TooClose(t.limIn, t.eccIn), t.rayIn),
                         TooClose(t.limIn,
                                  Assign(t.eccIn, TooClose(t.limIn, t.eccIn),
                                         t.rayIn)),
                         0)]

\* ----------------------------------------------------- observation simulator

\* np.random.binomial(n, p): p is the duty cycle in tenths, t the draw; the
\* number of successes lies in 0..n, is n when p = 1 and 0 when p = 0.
Binomial(n, p, t) ==
    IF p >= 10 THEN n ELSE IF p <= 0 THEN 0 ELSE Min(n, t)

\* A thinning that is applied on every row, whatever the ideal count.
ThinnedAlways(n, p, t) == Binomial(Max(n, 1), p, t)

\* if n > 0: np.random.binomial(n, d), else the np.zeros entry stays
Thinned(n, p, t) == IF n > 0 THEN Binomial(n, p, t) ELSE 0

\* The rows of df: geometry, span, ideal and observed counts of row i.
\* Phases are in quarters of a period; secondary_phase is D.sp[i].  The
\* trap_* columns exist only after an exact fit (None before); fit_pri and
\* fit_sec record what became of the fitter call for the event.
ObservedRow(st, D, i) ==
    LET init == D.ph[i]
        final == init + (4 * st["dataspan"][i]) \div st["period"][i]
        n1 == (final \div 4) * st["tra"][i]
        n2 == ((final + D.sp[i]) \div 4 - (init + D.sp[i]) \div 4) * st["occ"][i]
    IN  [tra |-> st["tra"][i], occ |-> st["occ"][i],
         d_pri |-> st["d_pri"][i], d_sec |-> st["d_sec"][i],
         T14_pri |-> st["T14_pri"][i], T14_sec |-> st["T14_sec"][i],
         n_pri_ideal |-> n1, n_sec_ideal |-> n2,
         n_pri |-> Thinned(n1, st["dutycycle"][i], D.thin[i]),
         n_sec |-> Thinned(n2, st["dutycycle"][i], D.thin[i]),
         trap_pri |-> None, trap_sec |-> None,
         fit_pri |-> "off", fit_sec |-> "off"]

\* m = (self.tra | self.occ) & (self.dataspan > 0); then the rows with
\* n_pri > 0 or n_sec > 0 are kept.  The catalog is keyed by the star index.
ObservedCatalog(st, D) ==
    LET m == {i \in Stars : (st["tra"][i] = 1 \/ st["occ"][i] = 1)
                            /\ st["dataspan"][i] > 0}
        kept == {i \in m : ObservedRow(st, D, i).n_pri > 0
                           \/ ObservedRow(st, D, i).n_sec > 0}
    IN  [i \in kept |-> ObservedRow(st, D, i)]

\* A check that accepts a missing value for a pending column.
ObsVarLenient(P, v, var) ==
    IF P.err # "none" \/ var = None THEN P
    ELSE MarkCalculated(SetColumn(P, v, AllRows(var)), v)

\* One turn of the loop over ['dataspan', 'dutycycle'] in observe.
ObsVar(P, v, var) ==
    IF P.err # "none" THEN P
    ELSE IF Pending(P, v)
    THEN IF var = None THEN Raise(P, "ValueError")
         ELSE MarkCalculated(SetColumn(P, v, AllRows(var)), v)
    ELSE IF var # None THEN SetColumn(P, v, AllRows(var)) ELSE P

RECURSIVE Observe(_, _, _)
RECURSIVE GetNObserved(_, _, _, _, _)

\* if not self._trap_trained
NeedsTrapTraining(P) == ~P.tt

\* The head of observe: fit_trap forces new; new regenerates binaries and
\* orbits, new_orbits the orbits only.
Regenerate(P, D, a) ==
    IF a.fit_trap \/ a.new \/ a.new_orbits
    THEN GenerateOrbits(IF a.fit_trap \/ a.new
                        THEN GenerateBinaries(P, D, FALSE) ELSE P, D, FALSE)
    ELSE P

\* for v in ['dataspan', 'dutycycle']: ...
SurveyColumns(P, a) ==
    ObsVar(ObsVar(P, "dataspan", a.dataspan), "dutycycle", a.dutycycle)

\* df, the counts and the catalog of the rows with an observed eclipse
Catalogued(P, D) == [P EXCEPT !.cat = ObservedCatalog(P.st, D)]

\* eclipse_tt raising NoEclipseError out of the loop.
TrapFitUncaught(flag, noecl) ==
    IF flag = 1
    THEN IF noecl THEN [val |-> NaN, fit |-> "NoEclipseError", err |-> "NoEclipseError"]
         ELSE [val |-> SomeValue, fit |-> "returned", err |-> "none"]
    ELSE [val |-> NaN, fit |-> "not called", err |-> "none"]

\* One event of the fit_trap loop: if flag: try eclipse_tt(...) except
\* NoEclipseError: [np.nan]*3, else [np.nan]*3.  val stands for the three
\* of duration, depth and slope; noecl is the fitter's verdict.
TrapFit(flag, noecl) ==
    IF flag = 1
    THEN IF noecl THEN [val |-> NaN, fit |-> "NoEclipseError", err |-> "none"]
         ELSE [val |-> SomeValue, fit |-> "returned", err |-> "none"]
    ELSE [val |-> NaN, fit |-> "not called", err |-> "none"]

\* The row of the catalog after its turn of the fit_trap loop.
FittedRow(r, noecl_pri, noecl_sec) ==
    [r EXCEPT !.trap_pri = TrapFit(r.tra, noecl_pri).val,
              !.fit_pri = TrapFit(r.tra, noecl_pri).fit,
              !.trap_sec = TrapFit(r.occ, noecl_sec).val,
              !.fit_sec = TrapFit(r.occ, noecl_sec).fit]

\* The exception that leaves the fit_trap loop, if any.
FitError(cat, D) ==
    IF \E i \in DOMAIN cat :
           \/ TrapFit(cat[i].tra, D.noecl_pri[i]).err # "none"
           \/ TrapFit(cat[i].occ, D.noecl_sec[i]).err # "none"
    THEN "NoEclipseError" ELSE "none"

\* if fit_trap: the exact trapezoid fit of every event of the catalog
FitTrapezoids(P, D, a) ==
    IF P.err # "none" \/ ~a.fit_trap THEN P
    ELSE IF FitError(P.cat, D) # "none"
    THEN [Raise(P, FitError(P.cat, D)) EXCEPT !.cat = <<>>]
    ELSE [P EXCEPT !.cat = [i \in DOMAIN @ |->
              FittedRow(@[i], D.noecl_pri[i], D.noecl_sec[i])]]

\* The positions at which a boolean mask over n rows is True, in order:
\* what indexing an array with the mask keeps.
RECURSIVE Where(_, _)
Where(mask, n) ==
    IF n = 0 THEN <<>>
    ELSE Where(mask, n - 1) \o (IF mask[n] THEN <<n>> ELSE <<>>)

\* pri = (df.T14_pri.values > 0) & (df.d_pri.values > 0); durations and
\* depths are in hundredths, a comparison with NaN is False.
PriMask(df) ==
    [i \in DOMAIN df |-> df[i].T14_pri > 0 /\ df[i].d_pri > 0]

\* sec = (df.T14_sec.values > 0) & (df.d_sec.values > 0)
SecMask(df) ==
    [i \in DOMAIN df |-> df[i].T14_sec > 0 /\ df[i].d_sec > 0]

\* mask[:] = False
NoRows(df) == [i \in DOMAIN df |-> FALSE]

\* One row of X for the event of catalog row pos: T14 += self.texp;
\* T23 = np.clip(T23 - self.texp, 0, T14); secondary is 0 or 1.  pos is kept
\* to tell which event the row came from.
FeatureRow(pos, T14, T23, secondary) ==
    [pos |-> pos, T14 |-> T14 + texp,
     T23 |-> Clip(T23 - texp, 0, T14 + texp), secondary |-> secondary]

\* np.concatenate((x_pri[pri], x_sec[sec])) of the feature columns
ConcatFeatures(df, pri, sec) ==
    [j \in 1..Len(pri) |->
        FeatureRow(pri[j], df[pri[j]].T14_pri, df[pri[j]].T23_pri, 0)]
    \o [j \in 1..Len(sec) |->
           FeatureRow(sec[j], df[sec[j]].T14_sec, df[sec[j]].T23_sec, 1)]

\* A concatenation that puts the secondary rows first.
TrapFeaturesSecFirst(df, sec_only, pri_only) ==
    ConcatFeatures(df, <<>>,
                   Where(IF pri_only THEN NoRows(df) ELSE SecMask(df), Len(df)))
    \o ConcatFeatures(df, Where(IF sec_only THEN NoRows(df) ELSE PriMask(df),
                                Len(df)), <<>>)

\* _get_trap_features(df, sec_only, pri_only)
TrapFeatures(df, sec_only, pri_only) ==
    ConcatFeatures(df,
                   Where(IF sec_only THEN NoRows(df) ELSE PriMask(df), Len(df)),
                   Where(IF pri_only THEN NoRows(df) ELSE SecMask(df), Len(df)))

\* y = np.concatenate((df.trap_*_pri.values[pri], df.trap_*_sec.values[sec]))
\* in _train_trap, with its own pri and sec: the events the targets are of.
TrapTargets(df) ==
    [j \in 1..Len(Where(PriMask(df), Len(df))) |->
        [pos |-> Where(PriMask(df), Len(df))[j], secondary |-> 0]]
    \o [j \in 1..Len(Where(SecMask(df), Len(df))) |->
           [pos |-> Where(SecMask(df), Len(df))[j], secondary |-> 1]]

\* The selection mask reads self.tra, self.occ and self.dataspan.
Simulate(P, D) ==
    IF P.err # "none" THEN P
    ELSE Catalogued(GetAttrs(P, D, <<"tra", "occ", "dataspan">>), D)

\* if temp_obsdata: both columns are set to NaN and both names appended
RestoreObs(P) ==
    [P EXCEPT !.st["dataspan"] = AllRows(NaN),
              !.st["dutycycle"] = AllRows(NaN),
              !.nc["dataspan"] = @ + 1, !.nc["dutycycle"] = @ + 1]

\* The head of _train_trap: placeholder survey data when dataspan is pending
Placeholders(P) ==
    IF Pending(P, "dataspan")
    THEN MarkEach([P EXCEPT !.st["dataspan"] = AllRows(DataspanPlaceholder),
                            !.st["dutycycle"] = AllRows(DutycyclePlaceholder)],
                  <<"dataspan", "dutycycle">>)
    ELSE P

\* The tail of _train_trap: placeholders removed, three pipelines fitted
\* and stored, then the flag is set.  An exception of the simulation
\* propagates before any of this.
FitTrap(P, temp_obsdata, isImplicit) ==
    IF P.err # "none" THEN P
    ELSE Ran([(IF temp_obsdata THEN RestoreObs(P) ELSE P)
                 EXCEPT !.pipes = @ \cup {"logd", "dur", "slope"},
                        !.tt = TRUE,
                        !.implicit.trap = IF isImplicit THEN Bump(@) ELSE @],
             "train_trap")

\* get_N_observed(N=N, fit_trap=True, regr_trap=False), new_orbits by default
TrainTrapArgs ==
    [fit_trap |-> TRUE, new |-> FALSE, new_orbits |-> TRUE,
     regr_trap |-> FALSE, dataspan |-> None, dutycycle |-> None]

\* _train_trap(N): N detected events are simulated with the exact fit
\* forced on, between the placeholder steps.
TrainTrap(P, D, N, isImplicit) ==
    FitTrap(GetNObserved(Placeholders(P), D, N, TrainTrapArgs, 0),
            Pending(P, "dataspan"), isImplicit)

\* if regr_trap: if not self._trap_trained: self._train_trap(); the catalog
\* built before the training is the one returned.
RegrTrap(P, D, a) ==
    IF P.err = "none" /\ a.regr_trap /\ NeedsTrapTraining(P)
    THEN [TrainTrap(P, D, MaxTrainN, TRUE) EXCEPT !.cat = P.cat]
    ELSE P

\* observe(fit_trap, new, new_orbits, regr_trap, dataspan, dutycycle)
Observe(P, D, a) ==
    RegrTrap(FitTrapezoids(Simulate(SurveyColumns(Regenerate(P, D, a), a), D),
                           D, a), D, a)

\* One turn of the loop of get_N_observed, after its observe call returned
\* P: rows is len of the catalog it adds.  The draws of one call are those
\* of D on every turn, so a turn that adds no row would repeat for ever.
Accumulate(P, D, N, a, acc) ==
    IF P.err # "none" THEN P
    ELSE IF Cardinality(DOMAIN P.cat) = 0 THEN Raise(P, "hang")
    ELSE GetNObserved(P, D, N, a, acc + Cardinality(DOMAIN P.cat))

\* get_N_observed: observe is repeated until N rows are gathered; its
\* dataspan and dutycycle arguments are not handed on.  acc is len(df).
GetNObserved(P, D, N, a, acc) ==
    IF P.err # "none" \/ acc >= N THEN P
    ELSE Accumulate(Observe(P, D, [a EXCEPT !.dataspan = None,
                                            !.dutycycle = None]),
                    D, N, a, acc)

\* -------------------------------------------------------- inputs and draws

Masses == {2, 10}               \* catalog primary masses (>= MinMass)
UDraws == {0, 4, 9}             \* np.random.random in [0, 1), tenths
QDraws == {0, 1}                \* lower / upper end of the power-law range
PeriodDraws == {700, 2800}      \* days, >= min_period
PhaseDraws == {0, 2}            \* initial phase, quarters
ThinDraws == {0, 1, 2}          \* successes of a binomial draw
DataspanValues == {DataspanPlaceholder}
DutycycleValues == {DutycyclePlaceholder}
SurveyDutycycles == {5, 10}     \* duty cycles of the observation runs, tenths
FBValues == {0, 4, 10}
InvalProps == {"mass_B", "d_pri", "dataspan"}
ReadProps == {"mass_B", "period", "b_pri", "d_pri", "dataspan"}

\* A column that holds x on odd rows and y on even rows.
Alt(x, y) == [i \in Stars |-> IF i % 2 = 1 THEN x ELSE y]

\* The random draws of one call: odd rows draw o, even rows draw e.
MkDraw(o, e, ph, thin) ==
    [u |-> Alt(o.u, e.u), qd |-> Alt(o.qd, e.qd), per |-> Alt(o.per, e.per),
     tra |-> Alt(o.tra, e.tra), occ |-> Alt(o.occ, e.occ),
     ph |-> AllRows(ph), sp |-> AllRows(2), thin |-> AllRows(thin),
     noecl_pri |-> AllRows(FALSE), noecl_sec |-> AllRows(FALSE)]

StarDraw(u, qd, per, tra, occ) ==
    [u |-> u, qd |-> qd, per |-> per, tra |-> tra, occ |-> occ]

\* The draws of the calls whose effect on the cache is what matters: a row
\* that eclipses both ways beside a row that (with fB < 0.9) is single.
CacheDraws ==
    {MkDraw(StarDraw(0, 1, 700, TRUE, TRUE), StarDraw(9, 0, 2800, TRUE, FALSE),
            2, 2)}

\* Every combination of membership and mass-ratio draws of the rows.
BinaryDraws ==
    {MkDraw(StarDraw(u1, q1, 700, TRUE, TRUE), StarDraw(u2, q2, 700, TRUE, TRUE),
            0, 0) : u1 \in UDraws, u2 \in UDraws,
                          q1 \in QDraws, q2 \in QDraws}

\* Geometry, phase and thinning draws of the observation simulator.
ObserveDraws ==
    {MkDraw(StarDraw(0, 1, per, t1, o1), StarDraw(0, 0, 700, TRUE, FALSE),
            ph, thin) :
        per \in PeriodDraws, t1 \in BOOLEAN, o1 \in BOOLEAN,
        ph \in PhaseDraws, thin \in ThinDraws}

\* The defaults of observe.
NoArgs ==
    [fit_trap |-> FALSE, new |-> FALSE, new_orbits |-> FALSE,
     regr_trap |-> FALSE, dataspan |-> None, dutycycle |-> None]

\* <<fit_trap, new, new_orbits, regr_trap>> of the observe calls
ObserveFlags ==
    {<<FALSE, FALSE, FALSE, FALSE>>, <<FALSE, TRUE, FALSE, FALSE>>,
     <<FALSE, FALSE, TRUE, FALSE>>, <<TRUE, FALSE, FALSE, FALSE>>,
     <<FALSE, FALSE, FALSE, TRUE>>}

\* The argument records of observe over flag tuples <<fit_trap, new,
\* new_orbits, regr_trap>> and survey values.
ArgsOver(FS, DSV, DCV) ==
    {[fit_trap |-> f[1], new |-> f[2], new_orbits |-> f[3], regr_trap |-> f[4],
      dataspan |-> ds, dutycycle |-> dc] : f \in FS, ds \in DSV, dc \in DCV}

ObserveArgs ==
    ArgsOver(ObserveFlags, DataspanValues \cup {None},
             DutycycleValues \cup {None})

SurveyArgs ==
    ArgsOver({<<FALSE, FALSE, FALSE, FALSE>>, <<FALSE, TRUE, FALSE, FALSE>>},
             DataspanValues, SurveyDutycycles)

\* Geometry draws and fitter verdicts of the exact trapezoid fit: row 1
\* under every geometry, beside a row that transits only.
FitDraws ==
    {[MkDraw(StarDraw(0, 1, 700, t1, o1), StarDraw(0, 0, 700, TRUE, FALSE),
             0, 2) EXCEPT !.noecl_pri = Alt(p1, p2),
                          !.noecl_sec = Alt(s1, FALSE)] :
        t1 \in BOOLEAN, o1 \in BOOLEAN, p1 \in BOOLEAN, p2 \in BOOLEAN,
        s1 \in BOOLEAN}

FitArgs ==
    ArgsOver({<<TRUE, FALSE, FALSE, FALSE>>, <<FALSE, TRUE, FALSE, FALSE>>},
             DataspanValues, SurveyDutycycles)

\* Parameter vectors handed to the constructor and to the params setter:
\* one entry short, of the declared length, one entry long.
ParamVectors ==
    {SubSeq(default_params, 1, 6), default_params,
     [default_params EXCEPT ![1] = 10], default_params \o <<0>>}
ParamKinds == {"list", "tuple"}
ParamValues == {0, 5}           \* values of set_params(name=value)

EccDraws == {0, 3, 40, 70}      \* np.random.beta(a, b), hundredths
RayleighDraws == {1, 3, 60, 150} \* np.random.rayleigh(0.03), hundredths
LimValues == {NaN, 50, 98, 120} \* single; close when eccentric; when not circular; always

\* The arguments of get_N_observed: its defaults (new_orbits, regr_trap),
\* regr_trap switched off, with and without survey values.
NObservedArgs ==
    ArgsOver({<<FALSE, FALSE, TRUE, TRUE>>, <<FALSE, FALSE, TRUE, FALSE>>},
             DataspanValues \cup {None}, DutycycleValues \cup {None})

\* Geometry draws of the get_N_observed calls: every call has an eclipsing
\* row, so that its loop gathers rows.
NObservedDraws ==
    {MkDraw(StarDraw(0, 1, per, t1, o1), StarDraw(0, 0, 700, TRUE, FALSE),
            ph, 2) :
        per \in PeriodDraws, t1 \in BOOLEAN, o1 \in BOOLEAN, ph \in PhaseDraws}

\* ------------------------------------------------------------------ actions

\* What is recorded of a call: its name and arguments, the exception it
\* ended with, the generators it ran, the membership mask it drew and the
\* kind of value it returned.
Outcome(op, arg, a, Q, ret) ==
    [op |-> op, arg |-> arg, a |-> a, err |-> Q.err, gens |-> Q.gens,
     b |-> Q.b, ret |-> ret]

\* The state after a call that ended with object P.  A call that would not
\* return ("hang") takes no step; MaxDup bounds the pending list.
Commit(P, op, arg, a, ret) ==
    \E Q \in {P} :
        /\ Q.err # "hang"
        /\ \A c \in Props : Q.nc[c] <= MaxDup
        /\ stars' = Q.st
        /\ not_calculated' = Q.nc
        /\ attrs' = Q.attrs
        /\ binary_trained' = Q.bt
        /\ trap_trained' = Q.tt
        /\ pipelines' = Q.pipes
        /\ implicit' = Q.implicit
        /\ catalog' = Q.cat
        /\ last' = Outcome(op, arg, a, Q, ret)
        /\ UNCHANGED <<blended, params, params_type, calc>>

\* __init__: the catalog holds mass_A and the columns `given`; every other
\* property column is created as NaN and listed in _not_calculated;
\* self._params = params is kept as handed in, and set_params() installs
\* list(default_params) when it is None; nothing is trained.
ConstructWith(isBlended, mA, given, p, kind) ==
    /\ blended = isBlended
    /\ stars = [c \in Props |->
           CASE c = "mass_A" -> mA
             [] c = "radius_A" /\ c \in given -> AllRows(SomeValue)
             [] c = "dataspan" /\ c \in given -> AllRows(DataspanPlaceholder)
             [] c = "dutycycle" /\ c \in given -> AllRows(DutycyclePlaceholder)
             [] OTHER -> AllRows(NaN)]
    /\ not_calculated = [c \in Props |->
           IF c = "mass_A" \/ c \in given THEN 0 ELSE 1]
    /\ attrs = {}
    /\ params = p
    /\ params_type = kind
    /\ binary_trained = FALSE
    /\ trap_trained = FALSE
    /\ pipelines = {}
    /\ implicit = [pipelines |-> 0, trap |-> 0]
    /\ last = Outcome("init", "", NoArgs, Self, "none")
    /\ catalog = <<>>

\* BinaryPopulation(stars): params=None
Construct(isBlended, mA, given) ==
    /\ ConstructWith(isBlended, mA, given, default_params, "list")
    /\ calc = NoCalc

\* pop.<name>: an attribute read from outside
ReadAttr ==
    \E name \in ReadProps, D \in CacheDraws :
        /\ not_calculated[name] > 0 \/ name \in attrs
        /\ Commit(GetAttr(Self, D, name), "getattr", name, NoArgs,
               IF name \in attrs THEN "attribute" ELSE "column")

\* pop._remove_prop(prop) on a known property
RemovePropCall ==
    \E prop \in InvalProps :
        /\ not_calculated[prop] = 0
        /\ Commit(RemoveProp(Self, prop), "_remove_prop", prop, NoArgs, "none")

GenerateBinariesWith(DS) ==
    \E use_ic \in BOOLEAN, D \in DS :
        Commit(GenerateBinaries(Self, D, use_ic), "_generate_binaries",
               IF use_ic THEN "use_ic" ELSE "regression", NoArgs, "none")

\* pop._generate_binaries(use_ic)
GenerateBinariesCall == GenerateBinariesWith(CacheDraws)

\* pop._generate_orbits(geom_only)
GenerateOrbitsCall ==
    \E geom_only \in BOOLEAN, D \in CacheDraws :
        Commit(GenerateOrbits(Self, D, geom_only), "_generate_orbits",
               IF geom_only THEN "geom_only" ELSE "full", NoArgs, "none")

\* pop.get_pgeom(new): _prepare_geom(new) and a read of the table
GetPgeomCall ==
    \E new \in BOOLEAN, D \in CacheDraws :
        Commit(PrepareGeom(Self, D, new), "get_pgeom",
               IF new THEN "new" ELSE "", NoArgs, "none")

ObserveWith(AS, DS) ==
    \E a \in AS, D \in DS :
        Commit(Observe(Self, D, a), "observe", "",
               [NoArgs EXCEPT !.dataspan = a.dataspan,
                              !.dutycycle = a.dutycycle], "catalog")

\* pop.observe(...)
ObserveCall == ObserveWith(ObserveArgs, CacheDraws)

\* pop._train_trap(N)
TrainTrapCall ==
    \E N \in 1..MaxTrainN, D \in CacheDraws :
        Commit(TrainTrap(Self, D, N, FALSE), "_train_trap", "", NoArgs, "none")

\* pop.set_params(fB=v)
SetParamsCall ==
    \E v \in FBValues :
        /\ params' = [params EXCEPT ![ParamIndex("fB")] = v]
        /\ last' = Outcome("set_params", "fB", NoArgs, Self, "none")
        /\ catalog' = <<>>
        /\ UNCHANGED <<blended, stars, not_calculated, attrs, binary_trained,
                       trap_trained, pipelines, implicit, params_type, calc>>

\* What a call leaves of the parameter vector: the vector, its container
\* and the exception the call ended with.
Installed(p, kind, err) == [params |-> p, kind |-> kind, err |-> err]

\* params.setter: assert len(p)==len(self.param_names); self._params = p
ParamsSetter(old, oldkind, p, kind) ==
    IF Len(p) # Len(param_names) THEN Installed(old, oldkind, "AssertionError")
    ELSE Installed(p, kind, "none")

\* set_params(name=v): self._params is not None after __init__, so the
\* body is self._params[self.param_names.index(name)] = v.  A tuple does
\* not support item assignment; a list raises IndexError past its end.
SetParams(p, kind, name, v) ==
    IF kind = "tuple" THEN Installed(p, kind, "TypeError")
    ELSE IF ParamIndex(name) > Len(p) THEN Installed(p, kind, "IndexError")
    ELSE Installed([p EXCEPT ![ParamIndex(name)] = v], kind, "none")

\* The state after a step that works on local arrays only and left them as c.
CommitCalc(c, op) ==
    /\ calc' = [op |-> op, out |-> c]
    /\ last' = Outcome(op, "", NoArgs, Self, "none")
    /\ catalog' = <<>>
    /\ UNCHANGED <<blended, stars, not_calculated, attrs, params, params_type,
                   binary_trained, trap_trained, pipelines, implicit>>

\* A step about to run on the arrays c.
Drawn(c) ==
    /\ ConstructWith(FALSE, Alt(10, 2), {}, default_params, "list")
    /\ calc = [op |-> "drawn", out |-> c]

\* The circularization of _generate_orbits on the drawn eccentricities
CircularizeStep ==
    /\ calc.op = "drawn"
    /\ CommitCalc(Circularize(calc.out), "circularize")

\* _sample_period(N), first statement: N samples are drawn
SamplePeriodDraw ==
    /\ calc.op = "called"
    /\ \E fresh \in [Stars -> PeriodSamples(params[ParamIndex("mu_logp")])] :
           CommitCalc([calc.out EXCEPT !.sampled = fresh], "sampling")

\* One turn of `while nbad > 0`: the bad entries are drawn again
ResampleStep ==
    /\ calc.op = "sampling"
    /\ NBad(calc.out.sampled) > 0
    /\ calc.out.rounds < MaxRounds
    /\ \E fresh \in [Stars -> PeriodSamples(params[ParamIndex("mu_logp")])] :
           CommitCalc([calc.out EXCEPT
                          !.sampled = Replace(calc.out.sampled, fresh),
                          !.rounds = @ + 1], "sampling")

\* The loop is left and period returned
ReturnPeriod ==
    /\ calc.op = "sampling"
    /\ ~(NBad(calc.out.sampled) > 0)
    /\ CommitCalc(calc.out, "_sample_period")

\* pop._ensure_age()
EnsureAgeCall ==
    /\ calc.op = "drawn"
    /\ CommitCalc(EnsureAge(calc.out), "_ensure_age")

\* _train_trap, lines 816-824: X = self._get_trap_features(df) and the
\* targets of the same catalog
TrainTrapAssemble ==
    /\ calc.op = "drawn"
    /\ CommitCalc([calc.out EXCEPT
                      !.X = TrapFeatures(calc.out.df, FALSE, FALSE),
                      !.y = TrapTargets(calc.out.df)], "_train_trap")

\* observe(regr_trap), lines 636-639: Xpri, Xsec and the row masks the
\* predictions are stored under
RegrTrapAssemble ==
    /\ calc.op = "drawn"
    /\ CommitCalc([calc.out EXCEPT
                      !.Xpri = TrapFeatures(calc.out.df, FALSE, TRUE),
                      !.Xsec = TrapFeatures(calc.out.df, TRUE, FALSE),
                      !.pri = Where(PriMask(calc.out.df), Len(calc.out.df)),
                      !.sec = Where(SecMask(calc.out.df), Len(calc.out.df))],
                  "observe")

\* The state after a call that left R of the parameter vector.
CommitParams(R, op, arg) ==
    /\ params' = R.params
    /\ params_type' = R.kind
    /\ last' = Outcome(op, arg, NoArgs, Raise(Self, R.err), "none")
    /\ catalog' = <<>>
    /\ UNCHANGED <<blended, stars, not_calculated, attrs, binary_trained,
                   trap_trained, pipelines, implicit, calc>>

\* pop.params = p
ParamsSetterCall ==
    \E p \in ParamVectors, kind \in ParamKinds :
        CommitParams(ParamsSetter(params, params_type, p, kind),
                     "params.setter", "")

\* pop.set_params(name=v) for a declared name
SetParamsNamed ==
    \E name \in Range(param_names), v \in ParamValues :
        CommitParams(SetParams(params, params_type, name, v),
                     "set_params", name)

\* pop._generate_binaries(use_ic) under every membership and mass-ratio draw
GenerateBinariesDrawn == GenerateBinariesWith(BinaryDraws)

\* pop.observe(new, dataspan, dutycycle) under every geometry, phase and
\* thinning draw
ObserveSurvey == ObserveWith(SurveyArgs, ObserveDraws)

\* pop.observe(fit_trap, new, dataspan, dutycycle) under every geometry
\* draw and fitter verdict; the whole argument record is kept.
ObserveFit ==
    \E a \in FitArgs, D \in FitDraws :
        Commit(Observe(Self, D, a), "observe", "", a, "catalog")

\* pop.get_N_observed(N, regr_trap, dataspan, dutycycle): when it returns,
\* len(df) >= N
GetNObservedCall ==
    \E N \in 1..MaxTrainN, a \in NObservedArgs, D \in NObservedDraws :
        Commit(GetNObserved(Self, D, N, a, 0), "get_N_observed", "",
               [NoArgs EXCEPT !.dataspan = a.dataspan,
                              !.dutycycle = a.dutycycle], "catalog")

\* --------------------------------------------------------- specifications

\* The property cache and the surrogate lifecycle: every call, on a base or
\* a blended population whose catalog holds both survey columns or neither.
Init ==
    \E isBlended \in BOOLEAN,
       given \in {{}, {"dataspan", "dutycycle"}} :
        Construct(isBlended, Alt(10, 2), given)

Next ==
    \/ ReadAttr
    \/ RemovePropCall
    \/ GenerateBinariesCall
    \/ GenerateOrbitsCall
    \/ GetPgeomCall
    \/ ObserveCall
    \/ TrainTrapCall

Spec == Init /\ [][Next]_vars

\* The physical generator alone: every catalog of primary masses, every
\* binary fraction, every membership and mass-ratio draw.
InitBin == \E mA \in [Stars -> Masses] : Construct(FALSE, mA, {})

NextBin == SetParamsCall \/ GenerateBinariesDrawn

SpecBin == InitBin /\ [][NextBin]_vars

\* The observation simulator alone: a population with survey columns,
\* observed under every geometry, phase and thinning draw.
InitObs == Construct(FALSE, Alt(10, 2), {"dataspan", "dutycycle"})

NextObs == ObserveSurvey \/ SetParamsCall

SpecObs == InitObs /\ [][NextObs]_vars

\* The exact trapezoid fit alone: a population with survey columns,
\* observed with and without fit_trap under every fitter verdict.
InitFit == Construct(FALSE, Alt(10, 2), {"dataspan", "dutycycle"})

NextFit == ObserveFit \/ SetParamsCall

SpecFit == InitFit /\ [][NextFit]_vars

\* The parameter vector alone: a population built with or without a params
\* argument, then the params setter and set_params(name=value).
InitPar ==
    \/ Construct(FALSE, Alt(10, 2), {})
    \/ \E p \in ParamVectors, kind \in ParamKinds :
           /\ ConstructWith(FALSE, Alt(10, 2), {}, p, kind)
           /\ calc = NoCalc

NextPar == ParamsSetterCall \/ SetParamsNamed

SpecPar == InitPar /\ [][NextPar]_vars

\* The circularization alone, under every eccentricity draw and every
\* separation of the stars.
InitEcc ==
    \E ecc \in [Stars -> EccDraws], lim \in [Stars -> LimValues],
       ray \in RayleighDraws :
        Drawn([eccIn |-> ecc, limIn |-> lim, rayIn |-> ray,
               redrawn |-> AllRows(FALSE), zeroed |-> AllRows(FALSE),
               eccOut |-> ecc])

SpecEcc == InitEcc /\ [][CircularizeStep]_vars

\* The period sampler alone: a population whose mu_logp is the default, a
\* zero or a negative number.
MuLogpValues == {24, 0, -3}

InitPeriod ==
    \E mu \in MuLogpValues :
        /\ ConstructWith(FALSE, Alt(10, 2), {},
                         [default_params EXCEPT ![ParamIndex("mu_logp")] = mu],
                         "list")
        /\ calc = [op |-> "called",
                   out |-> [sampled |-> AllRows(NaN), rounds |-> 0]]

NextPeriod == SamplePeriodDraw \/ ResampleStep \/ ReturnPeriod

SpecPeriod == InitPeriod /\ [][NextPeriod]_vars

\* The age step alone: catalogs with and without an age column, supplied
\* ages below, inside and above the isochrone range of the row.
SuppliedAges == {850, 950, 1015}
MinAges == {900}
MaxAges == {1000, 1020}
IcMaxAges == {1010}

InitAge ==
    \E has \in BOOLEAN, age \in [Stars -> SuppliedAges],
       mx \in [Stars -> MaxAges], u \in [Stars -> UDraws] :
        Drawn([supplied |-> has, hasAge |-> has,
               ageCol |-> IF has THEN age ELSE AllRows(NaN),
               minAge |-> [i \in Stars |-> CHOOSE a \in MinAges : TRUE],
               maxAge |-> mx,
               icMaxAge |-> CHOOSE a \in IcMaxAges : TRUE,
               uDraw |-> IF has THEN AllRows(0) ELSE u])

SpecAge == InitAge /\ [][EnsureAgeCall]_vars

\* The feature builder alone.  Catalog rows: both events with a flat
\* bottom; both events, the secondary grazing; primary only; secondary
\* only, shorter than the exposure; a transit of zero depth; durations
\* whose depth is NaN; a grazing primary with a full secondary.
CatalogRows ==
    {[T14_pri |-> 20, T23_pri |-> 16, d_pri |-> 5,
      T14_sec |-> 18, T23_sec |-> 14, d_sec |-> 1],
     [T14_pri |-> 20, T23_pri |-> 16, d_pri |-> 5,
      T14_sec |-> 6, T23_sec |-> 0, d_sec |-> 1],
     [T14_pri |-> 10, T23_pri |-> 1, d_pri |-> 5,
      T14_sec |-> 0, T23_sec |-> 0, d_sec |-> 0],
     [T14_pri |-> 0, T23_pri |-> 0, d_pri |-> 0,
      T14_sec |-> 1, T23_sec |-> 1, d_sec |-> 1],
     [T14_pri |-> 10, T23_pri |-> 8, d_pri |-> 0,
      T14_sec |-> 0, T23_sec |-> 0, d_sec |-> 0],
     [T14_pri |-> 10, T23_pri |-> 8, d_pri |-> NaN,
      T14_sec |-> 10, T23_sec |-> 8, d_sec |-> NaN],
     [T14_pri |-> 6, T23_pri |-> 0, d_pri |-> 2,
      T14_sec |-> 18, T23_sec |-> 14, d_sec |-> 1]}

InitTrap ==
    \E df \in [Stars -> CatalogRows] :
        Drawn([df |-> df, X |-> <<>>, y |-> <<>>, Xpri |-> <<>>, Xsec |-> <<>>,
               pri |-> <<>>, sec |-> <<>>])

NextTrap == TrainTrapAssemble \/ RegrTrapAssemble

SpecTrap == InitTrap /\ [][NextTrap]_vars

\* get_N_observed alone, on a population whose catalog holds both survey
\* columns or neither.
InitN ==
    \E given \in {{}, {"dataspan", "dutycycle"}} :
        Construct(FALSE, Alt(10, 2), given)

NextN == GetNObservedCall \/ SetParamsCall

SpecN == InitN /\ [][NextN]_vars

\* ------------------------------------------------------------------ claims

\* None of props is in the pending collection.
KnownAll(props) == \A c \in props : not_calculated[c] = 0

\* C1: writing a derived batch marks all of its columns known: when a full
\* _generate_orbits() returns none of the 17 orbital properties is pending,
\* and when _generate_binaries() returns none of mass_B, radius_B,
\* flux_ratio is pending.
C1_BatchMarkedKnown ==
    /\ (last.op = "_generate_orbits" /\ last.arg = "full") => KnownAll(Orbital)
    /\ last.op = "_generate_binaries"
           => KnownAll({"mass_B", "radius_B", "flux_ratio"})

\* C2: an attribute read of a pending property of the physical, orbital or
\* observation group runs the generator of its group, and when the read
\* returns the property is no longer pending and holds no NaN placeholder
\* column.
C2_ReadGenerates ==
    [][(last'.op = "getattr" /\ not_calculated[last'.arg] > 0)
          => /\ last'.gens # {}
             /\ not_calculated'[last'.arg] = 0
             /\ stars'[last'.arg] # AllRows(NaN)]_vars

\* C3: invalidating a known property resets its column to NaN and puts it
\* back in the pending collection, and the attribute read of it that follows
\* runs its generator again and returns the freshly generated column, after
\* which the property is known.
C3_RoundTrip ==
    [][/\ last'.op = "_remove_prop"
            => /\ stars'[last'.arg] = AllRows(NaN)
               /\ not_calculated'[last'.arg] > 0
       /\ (last.op = "_remove_prop" /\ last'.op = "getattr"
               /\ last'.arg = last.arg)
            => /\ last'.gens # {}
               /\ last'.ret = "column"
               /\ not_calculated'[last.arg] = 0]_vars

\* C4: when _generate_orbits(geom_only=True) returns, the first six orbital
\* properties are known and each of the other eleven holds NaN and is
\* pending, on the base and on the blended population alike.
C4_GeomOnly ==
    (last.op = "_generate_orbits" /\ last.arg = "geom_only")
        => /\ KnownAll(GeomProps)
           /\ \A c \in NonGeomProps :
                  not_calculated[c] > 0 /\ stars[c] = AllRows(NaN)

\* C5: when _train_trap returns, the set of pending properties is the one
\* before the call and dataspan and dutycycle hold the values they held
\* before the call.
C5_TrainTrapRestores ==
    [][(last'.op = "_train_trap" /\ last'.err = "none")
          => /\ \A c \in Props :
                    (not_calculated'[c] > 0) = (not_calculated[c] > 0)
             /\ \A v \in Obs : stars'[v] = stars[v]]_vars

\* C6: both training flags start false, a flag is true only with all
\* pipelines of its model stored, a flag turns true only in a call that ran
\* its trainer and never turns false again, and each trainer is invoked
\* implicitly at most once.
C6_Lifecycle ==
    /\ [](last.op = "init" => (~binary_trained /\ ~trap_trained))
    /\ [](binary_trained => {"dmag", "qR"} \subseteq pipelines)
    /\ [](trap_trained => {"logd", "dur", "slope"} \subseteq pipelines)
    /\ [](implicit.pipelines <= 1 /\ implicit.trap <= 1)
    /\ [][/\ binary_trained => binary_trained'
          /\ trap_trained => trap_trained'
          /\ (~binary_trained /\ binary_trained')
                 => "train_pipelines" \in last'.gens
          /\ (~trap_trained /\ trap_trained')
                 => "train_trap" \in last'.gens]_vars

\* Both surrogates were trained implicitly and the latest call, a regression
\* generation, reused the stored pipelines.
C6_Reused ==
    /\ implicit.pipelines = 1 /\ implicit.trap = 1
    /\ last.op = "_generate_binaries" /\ last.arg = "regression"
    /\ "train_pipelines" \notin last.gens

\* C7: observe raises ValueError exactly when dataspan or dutycycle is
\* neither passed nor known; in a call that returns, a passed value is the
\* column's value and the property is known.
C7_MissingInput ==
    [][last'.op = "observe"
          => /\ (last'.err = "ValueError")
                    = (\E v \in Obs : last'.a[v] = None /\ not_calculated[v] > 0)
             /\ last'.err = "none"
                    => \A v \in Obs :
                           /\ not_calculated'[v] = 0
                           /\ last'.a[v] # None
                                  => stars'[v] = AllRows(last'.a[v])]_vars

\* observe was given dataspan for a pending column and raised for the
\* dutycycle that was neither passed nor known.
C7_Raised ==
    /\ last.op = "observe" /\ last.err = "ValueError"
    /\ last.a.dataspan # None /\ last.a.dutycycle = None
    /\ not_calculated["dutycycle"] > 0

\* The latest call was pop._generate_binaries(...) and it returned.
Generated == last.op = "_generate_binaries" /\ last.err = "none"

\* C8: after _generate_binaries, on either path, mass_B is NaN exactly on
\* the rows not drawn as binary members, a member's mass_B is at most mass_A
\* (in hundredths: 10 * mass_A), with fB = 1.0 no row is NaN and with
\* fB = 0.0 every row is.
C8_SecondaryMass ==
    Generated =>
        /\ \A i \in Stars :
               /\ (stars["mass_B"][i] = NaN) = ~last.b[i]
               /\ last.b[i] => /\ stars["mass_B"][i] > 0
                               /\ stars["mass_B"][i] <= 10 * stars["mass_A"][i]
        /\ params[ParamIndex("fB")] = 10
               => \A i \in Stars : stars["mass_B"][i] # NaN
        /\ params[ParamIndex("fB")] = 0
               => \A i \in Stars : stars["mass_B"][i] = NaN

\* A generation drew one row as a binary member and another as single.
C8_Mixed ==
    /\ Generated
    /\ \E i, j \in Stars : last.b[i] /\ ~last.b[j]
    /\ \E i \in Stars : last.b[i] /\ stars["mass_B"][i] = 10 * stars["mass_A"][i]

\* C9: after _generate_binaries every row not drawn as a binary member
\* holds NaN in mass_B, radius_B and flux_ratio.
C9_SingleStarsNaN ==
    Generated =>
        \A i \in Stars :
            ~last.b[i] => \A c \in {"mass_B", "radius_B", "flux_ratio"} :
                              stars[c][i] = NaN

\* C10: in every catalog returned by observe, n_pri is at most the ideal
\* primary count and n_sec at most the ideal secondary count, a count whose
\* ideal value is not positive is 0, and a positive count needs its flag.
C10_Degradation ==
    \A i \in DOMAIN catalog :
        LET r == catalog[i]
        IN  /\ r.n_pri <= r.n_pri_ideal /\ r.n_sec <= r.n_sec_ideal
            /\ r.n_pri >= 0 /\ r.n_sec >= 0
            /\ r.n_pri_ideal <= 0 => r.n_pri = 0
            /\ r.n_sec_ideal <= 0 => r.n_sec = 0
            /\ r.n_pri > 0 => r.tra = 1
            /\ r.n_sec > 0 => r.occ = 1

\* A catalog row whose primary count was thinned below the ideal one and
\* whose secondary count has no ideal event.
C10_Thinned ==
    \E i \in DOMAIN catalog :
        /\ catalog[i].n_pri > 0 /\ catalog[i].n_pri < catalog[i].n_pri_ideal
        /\ catalog[i].n_sec_ideal = 0 /\ catalog[i].n_sec = 0

\* One event of a fitted catalog row: the fitter is called exactly when the
\* event is geometrically present, and the three fitted values are NaN
\* unless it returned.
FitEventOK(flag, fit, val) ==
    /\ flag = 0 => (fit = "not called" /\ val = NaN)
    /\ flag = 1 => fit \in {"NoEclipseError", "returned"}
    /\ fit = "NoEclipseError" => val = NaN
    /\ fit = "returned" => val = SomeValue

\* C11: during observe with fit_trap, an event for which the fitter signals
\* NoEclipseError gets NaN for its fitted duration, depth and slope and the
\* error does not leave observe; every other event, of the same system or
\* of another, still gets the fitter's results; an event that is not
\* geometrically present gets NaN without the fitter being called.
C11_NoEclipseContained ==
    (last.op = "observe" /\ last.a.fit_trap)
        => /\ last.err = "none"
           /\ \A i \in DOMAIN catalog :
                  /\ FitEventOK(catalog[i].tra, catalog[i].fit_pri,
                                catalog[i].trap_pri)
                  /\ FitEventOK(catalog[i].occ, catalog[i].fit_sec,
                                catalog[i].trap_sec)

\* A fitted catalog in which the primary event of one system failed while
\* its secondary event and the primary event of another system were fitted,
\* beside an event that is geometrically absent.
C11_OneEventFailed ==
    /\ last.op = "observe" /\ last.a.fit_trap /\ last.err = "none"
    /\ \E i \in DOMAIN catalog, j \in DOMAIN catalog :
           /\ i # j
           /\ catalog[i].fit_pri = "NoEclipseError"
           /\ catalog[i].trap_pri = NaN
           /\ catalog[i].fit_sec = "returned"
           /\ catalog[i].trap_sec = SomeValue
           /\ catalog[j].fit_pri = "returned"
           /\ catalog[j].trap_pri = SomeValue
           /\ catalog[j].occ = 0
           /\ catalog[j].fit_sec = "not called"
           /\ catalog[j].trap_sec = NaN


\* C12: every operation that installs a parameter vector, the params setter
\* and the params argument of the constructor, fails at that call when the
\* length is not len(param_names), so in every reachable state the stored
\* vector has exactly len(param_names) entries.
C12_FixedLength == Len(params) = Len(param_names)

\* C15: in every reachable state, whether the vector came from the
\* defaults, the constructor's params argument or the params setter,
\* set_params(name=value) for a declared name succeeds, changes exactly
\* that entry and leaves the other six entries and the length unchanged.
C15_SetParamsFrame ==
    [][last'.op = "set_params"
          => /\ last'.err = "none"
             /\ Len(params') = Len(params)
             /\ \E v \in ParamValues :
                    params' = [params EXCEPT ![ParamIndex(last'.arg)] = v]]_vars


\* C13: after the circularization every system whose periastron a*(1-ecc),
\* with the final ecc, is below the Roche threshold has ecc exactly 0 or the
\* Rayleigh draw; the two passes run in order (Rayleigh redraw, periastron
\* recomputed, zero-forcing), so the systems forced to 0 are among those
\* redrawn in the first pass, and a system not flagged in the first pass
\* keeps its original ecc.
C13_Circularized ==
    calc.op = "circularize"
        => \A i \in Stars :
               /\ (/\ calc.out.limIn[i] # NaN
                   /\ calc.out.limIn[i] > 100 - calc.out.eccOut[i])
                      => calc.out.eccOut[i] \in {0, calc.out.rayIn}
               /\ calc.out.zeroed[i] => calc.out.redrawn[i]
               /\ calc.out.zeroed[i] => calc.out.eccOut[i] = 0
               /\ ~calc.out.redrawn[i]
                      => calc.out.eccOut[i] = calc.out.eccIn[i]
               /\ calc.out.redrawn[i]
                      <=> (/\ calc.out.limIn[i] # NaN
                           /\ calc.out.limIn[i] > 100 - calc.out.eccIn[i])

\* One system was redrawn and kept its Rayleigh eccentricity, another was
\* redrawn and then forced to 0 while still below the threshold.
C13_BothPasses ==
    /\ calc.op = "circularize"
    /\ \E i \in Stars, j \in Stars :
           /\ calc.out.redrawn[i] /\ ~calc.out.zeroed[i]
           /\ calc.out.eccOut[i] = calc.out.rayIn
           /\ calc.out.eccOut[i] # calc.out.eccIn[i]
           /\ calc.out.redrawn[j] /\ calc.out.zeroed[j]
           /\ calc.out.eccOut[j] = 0
           /\ calc.out.limIn[j] > 100 - calc.out.eccOut[j]


\* C14: _sample_period(N) returns periods that are all at least min_period
\* (1 day): draws below the floor are resampled, only the violating entries
\* are replaced, and the loop ends exactly when no violation remains.
C14_FloorRespected ==
    calc.op = "_sample_period"
        => \A i \in Stars :
               /\ calc.out.sampled[i] # NaN
               /\ calc.out.sampled[i] >= min_period

\* The loop of _sample_period by itself: a turn replaces the violating
\* entries only, and the function returns exactly when none is left.
C14_LoopFrame ==
    [][/\ (calc.op = "sampling" /\ calc'.op = "sampling")
           => \A i \in Stars :
                  ~Bad(calc.out.sampled)[i]
                      => calc'.out.sampled[i] = calc.out.sampled[i]
       /\ calc'.op = "_sample_period"
           => /\ NBad(calc.out.sampled) = 0
              /\ calc'.out = calc.out]_vars


\* C16: after _ensure_age, when the catalog had no age column every
\* invented age lies within the isochrone age range of its star narrowed by
\* the margins (minage + 0.3, maxage - 0.1); when the catalog supplied ages,
\* every supplied age is clipped into [minage, maxage] of its star, so no
\* age outside the valid range remains in the table.
C16_AgesInRange ==
    calc.op = "_ensure_age"
        => \A i \in Stars :
               /\ calc.out.ageCol[i] >= calc.out.minAge[i]
               /\ calc.out.ageCol[i]
                      <= Clip(calc.out.maxAge[i], 0, calc.out.icMaxAge)
               /\ ~calc.out.supplied
                      => /\ calc.out.ageCol[i] >= calc.out.minAge[i] + 30
                         /\ calc.out.ageCol[i]
                                <= Clip(calc.out.maxAge[i], 0,
                                        calc.out.icMaxAge) - 10


\* The selected events of a catalog: <<position, 0>> for a primary event
\* with T14_pri > 0 and d_pri > 0, <<position, 1>> for a secondary one.
SelectedEvents(df) ==
    {<<i, 0>> : i \in {n \in DOMAIN df : df[n].T14_pri > 0 /\ df[n].d_pri > 0}}
    \cup {<<i, 1>> : i \in {n \in DOMAIN df :
                               df[n].T14_sec > 0 /\ df[n].d_sec > 0}}

\* X holds one row per event of ev, primary rows before secondary rows and
\* each kind in catalog order, with 0 <= T23 <= T14 in every row.
FeaturesOf(X, ev) ==
    /\ Len(X) = Cardinality(ev)
    /\ {<<X[j].pos, X[j].secondary>> : j \in DOMAIN X} = ev
    /\ \A j \in DOMAIN X, k \in DOMAIN X :
           j < k => \/ X[j].secondary < X[k].secondary
                    \/ X[j].secondary = X[k].secondary /\ X[j].pos < X[k].pos
    /\ \A j \in DOMAIN X : 0 <= X[j].T23 /\ X[j].T23 <= X[j].T14

\* C17: _get_trap_features returns exactly one row per selected primary
\* event (T14_pri > 0 and d_pri > 0) followed by one row per selected
\* secondary event, primary rows first and each subset in catalog order,
\* with indicator 0 on primary and 1 on secondary rows; the target arrays
\* of _train_trap and the row masks of observe(regr_trap) have the same
\* length and order as the feature rows; in every row 0 <= T23 <= T14.
C17_FeaturesAligned ==
    /\ calc.op = "_train_trap"
           => /\ FeaturesOf(calc.out.X, SelectedEvents(calc.out.df))
              /\ Len(calc.out.y) = Len(calc.out.X)
              /\ \A j \in DOMAIN calc.out.X :
                     /\ calc.out.y[j].pos = calc.out.X[j].pos
                     /\ calc.out.y[j].secondary = calc.out.X[j].secondary
    /\ calc.op = "observe"
           => /\ FeaturesOf(calc.out.Xpri,
                     {e \in SelectedEvents(calc.out.df) : e[2] = 0})
              /\ FeaturesOf(calc.out.Xsec,
                     {e \in SelectedEvents(calc.out.df) : e[2] = 1})
              /\ Len(calc.out.pri) = Len(calc.out.Xpri)
              /\ Len(calc.out.sec) = Len(calc.out.Xsec)
              /\ \A j \in DOMAIN calc.out.Xpri :
                     calc.out.pri[j] = calc.out.Xpri[j].pos
              /\ \A j \in DOMAIN calc.out.Xsec :
                     calc.out.sec[j] = calc.out.Xsec[j].pos

\* A training set with primary rows of two systems followed by a secondary
\* row of the first one, one of the rows clipped to T23 = 0.
C17_MixedCatalog ==
    /\ calc.op = "_train_trap"
    /\ Len(calc.out.X) >= 3
    /\ calc.out.X[1].secondary = 0 /\ calc.out.X[2].secondary = 0
    /\ calc.out.X[1].pos < calc.out.X[2].pos
    /\ calc.out.X[3].secondary = 1 /\ calc.out.X[3].pos = 1
    /\ \E j \in DOMAIN calc.out.X : calc.out.X[j].T23 = 0
    /\ Len(calc.out.X) < 2 * Len(calc.out.df)


\* C18: get_N_observed honours its dataspan and dutycycle arguments the way
\* observe does: called with both on a population whose dataspan and
\* dutycycle are pending, it writes them to the table, marks them known and
\* returns a catalog (of at least N rows) instead of raising the
\* missing-input error.
C18_ArgumentsHonoured ==
    [][(/\ last'.op = "get_N_observed"
        /\ last'.a.dataspan # None /\ last'.a.dutycycle # None
        /\ not_calculated["dataspan"] > 0 /\ not_calculated["dutycycle"] > 0)
          => /\ last'.err = "none"
             /\ not_calculated'["dataspan"] = 0
             /\ not_calculated'["dutycycle"] = 0
             /\ stars'["dataspan"] = AllRows(last'.a.dataspan)
             /\ stars'["dutycycle"] = AllRows(last'.a.dutycycle)]_vars


\* C19: a failed observe leaves the population unchanged: whenever observe
\* raises the missing-input error, for any combination of new, new_orbits
\* and fit_trap and of one of dataspan and dutycycle supplied while the
\* other is missing, the table contents, the pending collection and the
\* trained flags are the same as before the call.
C19_FailedObserveUnchanged ==
    [][(last'.op = "observe" /\ last'.err = "ValueError")
          => /\ stars' = stars
             /\ not_calculated' = not_calculated
             /\ binary_trained' = binary_trained
             /\ trap_trained' = trap_trained]_vars

====
